---- MODULE Spec2Model ----
(***************************************************************************)
(* A model of csv_test_base.core.CsvTestBase: the column resolution rule,  *)
(* the row loop of _load_file, the row loop inlined in load_from_package,  *)
(* and the three load operations that aggregate per-category results.      *)
(*                                                                         *)
(* A cell is a sequence of characters, a row is a sequence of cells (what  *)
(* csv.reader yields for one line), a pair is <<question, answer>>.        *)
(* Python indices are zero-based; TLA+ sequences are one-based, so cell i  *)
(* of the code is row[i + 1] here.                                         *)
(***************************************************************************)
EXTENDS Integers, Sequences, FiniteSets, TLC

\* ------------------------------------------------------------- bounds
\* Widest row the reader yields.
MaxWidth == 3
\* Most rows read from one file.
MaxRows == 2

\* ------------------------------------------------------------- strings
\* Characters str.strip() removes.
Whitespace == {" ", "\t", "\n", "\r"}

RECURSIVE lstrip(_)
\* str.lstrip(): drop leading whitespace.
lstrip(s) ==
    IF s = << >> THEN << >>
    ELSE IF Head(s) \in Whitespace THEN lstrip(Tail(s)) ELSE s

RECURSIVE rstrip(_)
\* str.rstrip(): drop trailing whitespace.
rstrip(s) ==
    IF s = << >> THEN << >>
    ELSE IF s[Len(s)] \in Whitespace THEN rstrip(SubSeq(s, 1, Len(s) - 1)) ELSE s

\* cell.strip() as used on lines 106/113/114 and 155/162/163.
strip(s) == rstrip(lstrip(s))

\* The raw cells a file may hold: empty, whitespace only, padded text.
Cells == { << >>, <<" ">>, <<" ", "a", " ">> }

\* The rows csv.reader may yield: every width from 0 (an empty line) up.
Rows == UNION { [1..w -> Cells] : w \in 0..MaxWidth }

\* ------------------------------------------------------------- selectors
\* ColumnSelector = Union[ColumnRole, int]; answer_column may also be None.
\* UNKNOWN stands for a value that is neither an int nor a ColumnRole.
LEFT  == [kind |-> "LEFT",  idx |-> 0]
RIGHT == [kind |-> "RIGHT", idx |-> 0]
UNKNOWN == [kind |-> "other", idx |-> 0]
None  == [kind |-> "None",  idx |-> 0]
Index(k) == [kind |-> "int", idx |-> k]

\* Explicit indices tried: one negative, every valid one, one past the widest row.
Indices == { Index(k) : k \in -1..MaxWidth }

QuestionSelectors == {LEFT, RIGHT, UNKNOWN} \cup Indices
AnswerSelectors == {None, LEFT, RIGHT, UNKNOWN} \cup Indices

\* The fields of CsvTestBase that the row logic reads (__init__).
Configs ==
    [question_column : QuestionSelectors,
     answer_column : AnswerSelectors,
     has_header : BOOLEAN]

\* ------------------------------------------------------------- _resolve_columns
\* Variant: RIGHT is taken to be cell 1, as in a two-column file.
to_index_right_is_one(sel, width) ==
    IF sel.kind = "int" THEN [err |-> "none", idx |-> sel.idx]
    ELSE IF sel.kind = "LEFT" THEN [err |-> "none", idx |-> 0]
    ELSE IF sel.kind = "RIGHT" THEN [err |-> "none", idx |-> 1]
    ELSE [err |-> "ValueError", idx |-> 0]

\* to_index(sel, width): [err, idx]; err is "ValueError" for an unknown selector.
to_index(sel, width) ==
    IF sel.kind = "int" THEN [err |-> "none", idx |-> sel.idx]
    ELSE IF sel.kind = "LEFT" THEN [err |-> "none", idx |-> 0]
    ELSE IF sel.kind = "RIGHT"
         THEN [err |-> "none", idx |-> IF width > 0 THEN width - 1 ELSE 0]
    ELSE [err |-> "ValueError", idx |-> 0]

\* Variant: with a role selector the answer is taken from the opposite end of
\* the row (the last cell for a question in cell 0).
infer_answer_opposite_end(question_column, q_idx, width) ==
    IF question_column.kind \in {"LEFT", "RIGHT"}
    THEN IF q_idx = 0 /\ width > 1 THEN width - 1 ELSE 0
    ELSE IF q_idx # 0 THEN 0 ELSE (IF width > 1 THEN 1 ELSE 0)

\* The inferred answer index when answer_column is None (lines 136-139).
infer_answer(question_column, q_idx, width) ==
    IF question_column.kind \in {"LEFT", "RIGHT"}
    THEN IF q_idx = 0 /\ width > 1 THEN 1 ELSE (IF width > 1 THEN 0 ELSE 0)
    ELSE IF q_idx # 0 THEN 0 ELSE (IF width > 1 THEN 1 ELSE 0)

\* Variant: on a collision the answer always falls back to cell 0.
adjust_answer_to_zero(q_idx, a_idx, width) ==
    IF q_idx = a_idx THEN 0 ELSE a_idx

\* The collision guard (lines 142-144).
adjust_answer(q_idx, a_idx, width) ==
    IF q_idx = a_idx
    THEN (IF q_idx = 0 /\ width > 1 THEN 1 ELSE 0)
    ELSE a_idx

\* The bound check (line 146).
in_range(q_idx, a_idx, width) ==
    (0 <= q_idx /\ q_idx < width) /\ (0 <= a_idx /\ a_idx < width)

\* _resolve_columns(row): [err, q, a]; err names the exception raised, if any.
resolve_columns(cfg, row) ==
    LET width == Len(row)
        qr == to_index(cfg.question_column, width)
    IN  IF qr.err # "none" THEN [err |-> qr.err, q |-> 0, a |-> 0]
        ELSE
        LET q_idx == qr.idx
            ar == IF cfg.answer_column.kind = "None"
                  THEN [err |-> "none",
                        idx |-> infer_answer(cfg.question_column, q_idx, width)]
                  ELSE to_index(cfg.answer_column, width)
        IN  IF ar.err # "none" THEN [err |-> ar.err, q |-> 0, a |-> 0]
            ELSE
            LET a_idx == adjust_answer(q_idx, ar.idx, width)
            IN  IF ~in_range(q_idx, a_idx, width)
                THEN [err |-> "IndexError", q |-> q_idx, a |-> a_idx]
                ELSE [err |-> "none", q |-> q_idx, a |-> a_idx]

\* ------------------------------------------------------------- the row loops
\* Variant: cells are compared with "" without being stripped.
is_blank_unstripped(row) == row = << >> \/ \A i \in 1..Len(row) : row[i] = << >>

\* `not row or all(cell.strip() == "" for cell in row)`
is_blank(row) == row = << >> \/ \A i \in 1..Len(row) : strip(row[i]) = << >>

\* Variant: `or` in place of `and`.
either_empty(q, a) == q = << >> \/ a = << >>

\* `q == "" and a == ""` (line 164): the pair is dropped.
both_empty(q, a) == q = << >> /\ a = << >>

\* The state of a row loop before its first row: the locals first and items,
\* the exception that ended it (err), and for the row just handled the branch
\* taken (path) and the indices resolved (q_idx, a_idx; -1 when not resolved).
LoopStart ==
    [first |-> TRUE, items |-> << >>, err |-> "none",
     path |-> "start", q_idx |-> -1, a_idx |-> -1]

\* A row that is neither blank nor the header (lines 160-166): resolve the
\* columns, strip the two cells, drop or yield the pair.
load_file_data_row(cfg, st, row) ==
    LET r == resolve_columns(cfg, row)
    IN  IF r.err # "none"
        THEN [st EXCEPT !.first = FALSE, !.err = r.err, !.path = "raise",
                        !.q_idx = -1, !.a_idx = -1]
        ELSE
        LET q == strip(row[r.q + 1])
            a == strip(row[r.a + 1])
        IN  IF both_empty(q, a)
            THEN [st EXCEPT !.first = FALSE, !.path = "dropped",
                            !.q_idx = r.q, !.a_idx = r.a]
            ELSE [st EXCEPT !.first = FALSE, !.path = "yield",
                            !.items = Append(st.items, <<q, a>>),
                            !.q_idx = r.q, !.a_idx = r.a]

\* Variant: the header test comes before the blank test, so the first row of
\* the file is the header even when it is blank.
load_file_row_first_line(cfg, st, row) ==
    IF st.first /\ cfg.has_header
    THEN [st EXCEPT !.first = FALSE, !.path = "header", !.q_idx = -1, !.a_idx = -1]
    ELSE IF is_blank(row)
    THEN [st EXCEPT !.first = FALSE, !.path = "blank", !.q_idx = -1, !.a_idx = -1]
    ELSE load_file_data_row(cfg, st, row)

\* One iteration of `for row in reader` in _load_file (lines 154-166).
load_file_row(cfg, st, row) ==
    IF is_blank(row)
    THEN [st EXCEPT !.path = "blank", !.q_idx = -1, !.a_idx = -1]
    ELSE IF st.first /\ cfg.has_header
    THEN [st EXCEPT !.first = FALSE, !.path = "header", !.q_idx = -1, !.a_idx = -1]
    ELSE load_file_data_row(cfg, st, row)

\* Variant: a blank row counts as the first row (the header test comes first).
package_row_header_first(cfg, st, row) ==
    IF st.first /\ cfg.has_header
    THEN [st EXCEPT !.first = FALSE, !.path = "header", !.q_idx = -1, !.a_idx = -1]
    ELSE load_file_row(cfg, [st EXCEPT !.first = FALSE], row)

\* One iteration of `for row in reader` in load_from_package (lines 105-117).
package_row(cfg, st, row) ==
    LET blank == row = << >> \/ \A i \in 1..Len(row) : strip(row[i]) = << >>
    IN  IF blank
        THEN [st EXCEPT !.path = "blank", !.q_idx = -1, !.a_idx = -1]
        ELSE IF st.first /\ cfg.has_header
        THEN [st EXCEPT !.first = FALSE, !.path = "header",
                        !.q_idx = -1, !.a_idx = -1]
        ELSE
        LET r == resolve_columns(cfg, row)
        IN  IF r.err # "none"
            THEN [st EXCEPT !.first = FALSE, !.err = r.err, !.path = "raise",
                            !.q_idx = -1, !.a_idx = -1]
            ELSE
            LET q == strip(row[r.q + 1])
                a == strip(row[r.a + 1])
            IN  IF q = << >> /\ a = << >>
                THEN [st EXCEPT !.first = FALSE, !.path = "dropped",
                                !.q_idx = r.q, !.a_idx = r.a]
                ELSE [st EXCEPT !.first = FALSE, !.path = "yield",
                                !.items = Append(st.items, <<q, a>>),
                                !.q_idx = r.q, !.a_idx = r.a]

RECURSIVE load_file(_, _, _)
\* list(self._load_file(f)) (lines 71, 81): the loop run over every row of the
\* file, stopping at the row that raises.
load_file(cfg, st, rows) ==
    IF rows = << >> \/ st.err # "none" THEN st
    ELSE load_file(cfg, load_file_row(cfg, st, Head(rows)), Tail(rows))

RECURSIVE package_entry(_, _, _)
\* The inlined loop of load_from_package run over every row of the entry.
package_entry(cfg, st, rows) ==
    IF rows = << >> \/ st.err # "none" THEN st
    ELSE package_entry(cfg, package_row(cfg, st, Head(rows)), Tail(rows))

\* ------------------------------------------------------------- file names
\* Code points of the characters that occur in the file names below.
Ord ==
    ("." :> 46) @@ ("S" :> 83) @@ ("T" :> 84) @@ ("V" :> 86) @@ ("a" :> 97) @@
    ("b" :> 98) @@ ("c" :> 99) @@ ("s" :> 115) @@ ("t" :> 116) @@ ("v" :> 118) @@
    ("x" :> 120)

\* str.lower() on those characters.
lower_char(c) ==
    IF c = "S" THEN "s" ELSE IF c = "T" THEN "t" ELSE IF c = "V" THEN "v" ELSE c

lower(s) == [i \in 1..Len(s) |-> lower_char(s[i])]

\* Position of the last "." of a name, 0 when there is none.
last_dot(name) ==
    LET dots == { i \in 1..Len(name) : name[i] = "." }
    IN  IF dots = {} THEN 0 ELSE CHOOSE i \in dots : \A j \in dots : j <= i

\* Path.suffix: from the last dot, unless the dot leads or ends the name.
suffix(name) ==
    LET p == last_dot(name)
    IN  IF 1 < p /\ p < Len(name) THEN SubSeq(name, p, Len(name)) ELSE << >>

\* Path.stem: the name without its suffix.
stem(name) ==
    LET p == last_dot(name)
    IN  IF 1 < p /\ p < Len(name) THEN SubSeq(name, 1, p - 1) ELSE name

\* Variant: the suffix is compared without lower().
recognized_case_sensitive(entry) ==
    entry.is_file /\ suffix(entry.name) \in { <<".", "c", "s", "v">>, <<".", "t", "s", "v">> }

\* `f.is_file() and f.suffix.lower() in {".csv", ".tsv"}` (lines 69, 99).
recognized(entry) ==
    entry.is_file /\ lower(suffix(entry.name)) \in { <<".", "c", "s", "v">>, <<".", "t", "s", "v">> }

RECURSIVE name_lt(_, _)
\* Path ordering within one directory: lexicographic by code point.
name_lt(a, b) ==
    IF b = << >> THEN FALSE
    ELSE IF a = << >> THEN TRUE
    ELSE IF Head(a) # Head(b) THEN Ord[Head(a)] < Ord[Head(b)]
    ELSE name_lt(Tail(a), Tail(b))

RECURSIVE sorted(_)
\* sorted(base.iterdir()) (line 68) for a set of entries with distinct names.
sorted(S) ==
    IF S = {} THEN << >>
    ELSE LET m == CHOOSE e \in S : \A o \in S \ {e} : name_lt(e.name, o.name)
         IN  <<m>> \o sorted(S \ {m})

\* Variant: pairs are added to a category that is already present.
store_extend(result, category, items) ==
    [c \in DOMAIN result \cup {category} |->
        IF c # category THEN result[c]
        ELSE IF c \in DOMAIN result THEN result[c] \o items ELSE items]

\* `result[category] = items` (lines 72, 82, 118) on a dict.
store(result, category, items) ==
    [c \in DOMAIN result \cup {category} |->
        IF c = category THEN items ELSE result[c]]

\* {} : the dict every load operation starts from (lines 67, 77, 90).
EmptyDict == [c \in {} |-> << >>]

\* ------------------------------------------------------------- inputs
\* Most entries of a directory, a package resource directory or a file list.
MaxFiles == 2
\* Most rows of one file when whole operations are explored.
LoadMaxRows == 2

\* All sequences over S of length at most n.
SeqsUpTo(S, n) == UNION { [1..k -> S] : k \in 0..n }

\* Directory entries: three recognised files (two sharing a base name, one with
\* an upper-case extension), a text file, and a sub-directory named like a CSV.
Entries ==
    { [name |-> <<"a", ".", "c", "s", "v">>, is_file |-> TRUE],
      [name |-> <<"a", ".", "T", "S", "V">>, is_file |-> TRUE],
      [name |-> <<"b", ".", "c", "s", "v">>, is_file |-> TRUE],
      [name |-> <<"b", ".", "t", "x", "t">>, is_file |-> TRUE],
      [name |-> <<"c", ".", "c", "s", "v">>, is_file |-> FALSE] }

\* What iterdir() may yield: the entries of a directory, each once, in any order.
Listings == { s \in SeqsUpTo(Entries, MaxFiles) :
                \A i, j \in 1..Len(s) : i # j => s[i] # s[j] }

\* What load_from_files may be given: any paths, in any order; two paths may
\* share a file name (in different directories).
FileLists == SeqsUpTo(Entries, MaxFiles)

\* Configurations explored for whole operations: the two role selectors, with
\* and without a header, an explicit index that one-cell rows do not have and
\* a negative one.
LoadConfigs ==
    { [question_column |-> LEFT, answer_column |-> None, has_header |-> FALSE],
      [question_column |-> RIGHT, answer_column |-> None, has_header |-> TRUE],
      [question_column |-> Index(1), answer_column |-> None, has_header |-> FALSE],
      [question_column |-> LEFT, answer_column |-> Index(-1), has_header |-> FALSE] }

\* Rows explored for whole operations: an empty line, a one-cell row and a
\* two-cell row.
LoadRows == { << >>, << <<" ", "a", " ">> >>, << <<" ", "a", " ">>, << >> >> }
LoadFiles == SeqsUpTo(LoadRows, LoadMaxRows)

\* A row none of whose cells holds a character other than a blank.
NoText(r) == \A i \in 1..Len(r) : \A j \in 1..Len(r[i]) : r[i][j] = " "

\* File name without its four-character extension, and the extension test,
\* read off the name directly.
BaseName(name) == SubSeq(name, 1, Len(name) - 4)
CsvOrTsv(name) ==
    /\ Len(name) > 4
    /\ name[Len(name) - 3] = "."
    /\ \/ name[Len(name) - 2] \in {"c", "C"} /\ name[Len(name) - 1] \in {"s", "S"}
       \/ name[Len(name) - 2] \in {"t", "T"} /\ name[Len(name) - 1] \in {"s", "S"}
    /\ name[Len(name)] \in {"v", "V"}

\* The rows of a file that are data: not blank and, with a header, not the
\* first row that is not blank.
DataRows(has_header, rows) ==
    LET text == { i \in 1..Len(rows) : ~NoText(rows[i]) }
    IN  IF has_header THEN { i \in text : \E j \in text : j < i } ELSE text

\* An explicit selector that names no cell of a row of width w.
Outside(sel, w) == sel.kind = "int" /\ (sel.idx < 0 \/ sel.idx >= w)

\* Some data row of the file is too narrow for an explicit selector.
HasOutOfRangeRow(c, rows) ==
    \E i \in DataRows(c.has_header, rows) :
        Outside(c.question_column, Len(rows[i])) \/ Outside(c.answer_column, Len(rows[i]))

\* The history of stored files, per base name: the file stored last (its name,
\* its place in the walk, its pairs), the pairs it replaced and how many files
\* were stored under the name.
Noted(h, name, at, items) ==
    LET b == BaseName(name)
        old == IF b \in DOMAIN h THEN h[b]
               ELSE [name |-> name, at |-> 0, items |-> << >>, prev |-> << >>, n |-> 0]
    IN  [c \in DOMAIN h \cup {b} |->
            IF c = b
            THEN [name |-> name, at |-> at, items |-> items,
                  prev |-> old.items, n |-> old.n + 1]
            ELSE h[c]]

\* ------------------------------------------------------------- state
VARIABLES
    cfg,            \* the loader's configuration
    op,             \* the operation under way: "file" (both row loops on one
                    \* file), "directory", "files" or "package"
    base_is_dir,    \* whether the directory / resource root exists as a directory
    entries,        \* iterdir()'s entries, or the paths given to load_from_files
    idx,            \* entries handled so far
    row,            \* the row just read
    nread,          \* rows read from the file
    lf,             \* the loop of _load_file
    pk,             \* the loop inlined in load_from_package
    result,         \* the dict being filled
    pkg_result,     \* the dict load_from_package fills when both loops run
    status,         \* "running", "returned", or the exception that ended the call
    returned,       \* << >> until the call returns, then <<the dict>>
    prior_text,     \* history: a row with text was read before `row`
    oob,            \* history: a data row too narrow for an explicit selector was read
    last_from       \* history: per base name, the last file parsed and its pairs

vars == <<cfg, op, base_is_dir, entries, idx, row, nread, lf, pk, result,
          pkg_result, status, returned, prior_text, oob, last_from>>

\* The order the for loop walks the entries in (lines 68, 78, 98).
walk(o, es) ==
    IF o = "directory" THEN sorted({ es[i] : i \in 1..Len(es) }) ELSE es

\* ------------------------------------------------------------- one file, both loops
Init ==
    /\ cfg \in Configs
    /\ op = "file"
    /\ base_is_dir = TRUE
    /\ entries = << [name |-> <<"a", ".", "c", "s", "v">>, is_file |-> TRUE] >>
    /\ idx = 0
    /\ row = << >>
    /\ nread = 0
    /\ lf = LoopStart
    /\ pk = LoopStart
    /\ result = EmptyDict
    /\ pkg_result = EmptyDict
    /\ status = "running"
    /\ returned = << >>
    /\ prior_text = FALSE
    /\ oob = FALSE
    /\ last_from = EmptyDict

\* The reader yields a row and each loop runs one iteration on it; an
\* exception leaves the loop and the call.
ReadRow ==
    /\ op = "file"
    /\ status = "running"
    /\ nread < MaxRows
    /\ \E r \in Rows :
        LET before == prior_text \/ (nread > 0 /\ ~NoText(row))
        IN  /\ row' = r
            /\ lf' = load_file_row(cfg, lf, r)
            /\ pk' = package_row(cfg, pk, r)
            /\ status' = IF lf'.err # "none" THEN lf'.err
                         ELSE IF pk'.err # "none" THEN pk'.err ELSE "running"
            /\ prior_text' = before
    /\ nread' = nread + 1
    /\ UNCHANGED <<cfg, op, base_is_dir, entries, idx, result, pkg_result,
                   returned, oob, last_from>>

\* The reader is exhausted: the pairs are stored under the file's category
\* and the dict is returned (lines 70-73, 80-83, 100, 118-119).
EndOfFile ==
    /\ op = "file"
    /\ status = "running"
    /\ result' = store(result, stem(entries[1].name), lf.items)
    /\ pkg_result' = store(pkg_result, stem(entries[1].name), pk.items)
    /\ returned' = <<result'>>
    /\ status' = "returned"
    /\ idx' = idx + 1
    /\ UNCHANGED <<cfg, op, base_is_dir, entries, row, nread, lf, pk,
                   prior_text, oob, last_from>>

Next == ReadRow \/ EndOfFile

Spec == Init /\ [][Next]_vars

\* ------------------------------------------------------------- whole operations
InitLoad ==
    /\ cfg \in LoadConfigs
    /\ op \in {"directory", "files", "package"}
    /\ base_is_dir \in BOOLEAN
    /\ entries \in (IF op = "files" THEN FileLists ELSE Listings)
    /\ (op = "files" => base_is_dir)
    /\ (~base_is_dir => entries = << >>)
    /\ idx = 0
    /\ row = << >>
    /\ nread = 0
    /\ lf = LoopStart
    /\ pk = LoopStart
    /\ result = EmptyDict
    /\ pkg_result = EmptyDict
    /\ status = "running"
    /\ returned = << >>
    /\ prior_text = FALSE
    /\ oob = FALSE
    /\ last_from = EmptyDict

\* The path is no directory (lines 64-65, 95-96).
LoadNotFound ==
    /\ op \in {"directory", "package"}
    /\ status = "running"
    /\ ~base_is_dir
    /\ status' = "FileNotFoundError"
    /\ UNCHANGED <<cfg, op, base_is_dir, entries, idx, row, nread, lf, pk, result,
                   pkg_result, returned, prior_text, oob, last_from>>

\* An entry that is no regular .csv/.tsv file is passed over (lines 69, 99).
LoadSkip ==
    /\ op \in {"directory", "package"}
    /\ status = "running"
    /\ base_is_dir
    /\ idx < Len(entries)
    /\ ~recognized(walk(op, entries)[idx + 1])
    /\ idx' = idx + 1
    /\ UNCHANGED <<cfg, op, base_is_dir, entries, row, nread, lf, pk, result,
                   pkg_result, status, returned, prior_text, oob, last_from>>

\* load_from_files opens whatever it is given; a path that is no file raises.
LoadOpenFails ==
    /\ op = "files"
    /\ status = "running"
    /\ idx < Len(entries)
    /\ ~entries[idx + 1].is_file
    /\ status' = "OSError"
    /\ UNCHANGED <<cfg, op, base_is_dir, entries, idx, row, nread, lf, pk, result,
                   pkg_result, returned, prior_text, oob, last_from>>

\* Variant: a file that fails to parse is passed over and the walk goes on.
after_parse_skip_failed(st, e, rows) ==
    /\ status' = "running"
    /\ result' = IF st.err # "none" THEN result
                 ELSE store(result, stem(e.name), st.items)
    /\ idx' = idx + 1
    /\ nread' = Len(rows)
    /\ oob' = (oob \/ HasOutOfRangeRow(cfg, rows))
    /\ last_from' = IF st.err # "none" THEN last_from
                    ELSE Noted(last_from, e.name, idx + 1, st.items)

\* What one entry's parse leaves behind: an exception ends the call, otherwise
\* the pairs are stored under the entry's category.
after_parse(st, e, rows) ==
    /\ status' = IF st.err # "none" THEN st.err ELSE "running"
    /\ result' = IF st.err # "none" THEN result
                 ELSE store(result, stem(e.name), st.items)
    /\ idx' = IF st.err # "none" THEN idx ELSE idx + 1
    /\ nread' = Len(rows)
    /\ oob' = (oob \/ HasOutOfRangeRow(cfg, rows))
    /\ last_from' = IF st.err # "none" THEN last_from
                    ELSE Noted(last_from, e.name, idx + 1, st.items)

\* One entry of load_from_directory / load_from_files is parsed by _load_file
\* (lines 70-72, 79-82).
LoadParse ==
    /\ op \in {"directory", "files"}
    /\ status = "running"
    /\ base_is_dir
    /\ idx < Len(entries)
    /\ LET e == walk(op, entries)[idx + 1]
       IN  /\ IF op = "files" THEN e.is_file ELSE recognized(e)
           /\ \E rows \in LoadFiles :
                /\ lf' = load_file(cfg, LoopStart, rows)
                /\ after_parse(lf', e, rows)
    /\ UNCHANGED <<cfg, op, base_is_dir, entries, row, pk, pkg_result, returned,
                   prior_text>>

\* One entry of load_from_package is parsed by the inlined loop (lines 100-118).
LoadParsePackage ==
    /\ op = "package"
    /\ status = "running"
    /\ base_is_dir
    /\ idx < Len(entries)
    /\ LET e == walk(op, entries)[idx + 1]
       IN  /\ recognized(e)
           /\ \E rows \in LoadFiles :
                /\ pk' = package_entry(cfg, LoopStart, rows)
                /\ after_parse(pk', e, rows)
    /\ UNCHANGED <<cfg, op, base_is_dir, entries, row, lf, pkg_result, returned,
                   prior_text>>

\* Every entry is handled: the dict is returned (lines 73, 83, 119).
LoadReturn ==
    /\ op \in {"directory", "files", "package"}
    /\ status = "running"
    /\ base_is_dir
    /\ idx = Len(entries)
    /\ returned' = <<result>>
    /\ status' = "returned"
    /\ UNCHANGED <<cfg, op, base_is_dir, entries, idx, row, nread, lf, pk, result,
                   pkg_result, prior_text, oob, last_from>>

NextLoad ==
    \/ LoadNotFound
    \/ LoadSkip
    \/ LoadOpenFails
    \/ LoadParse
    \/ LoadParsePackage
    \/ LoadReturn

SpecLoad == InitLoad /\ [][NextLoad]_vars

\* ------------------------------------------------------------- properties
\* A row has been read by the step just taken.
Stepped == nread' = nread + 1

Last(seq) == seq[Len(seq)]

\* The row just read is the first row of the file that holds text.
FirstWithText == nread > 0 /\ ~NoText(row) /\ ~prior_text

\* No pair of the sequence is ("", "").
NoEmptyPair(items) == \A i \in 1..Len(items) : items[i] # << << >>, << >> >>

\* The configuration C1 is about.
C1_Config ==
    cfg = [question_column |-> LEFT, answer_column |-> None, has_header |-> FALSE]

C2_Config ==
    cfg = [question_column |-> RIGHT, answer_column |-> None, has_header |-> TRUE]

\* C2: with question-column RIGHT, no answer column and a header, every pair
\* emitted for a row of width W >= 2 is (trim(cell W-1), trim(cell 0)), and the
\* header row (the first row with text) emits no pair.
C2_RightSwapsAndSkipsHeader ==
    C2_Config =>
        /\ (lf.path = "yield" /\ Len(row) >= 2
              => Last(lf.items) = <<strip(row[Len(row)]), strip(row[1])>>)
        /\ (FirstWithText => lf.path # "yield" /\ lf.items = << >>)

C2_Witness ==
    /\ C2_Config
    /\ nread = 2
    /\ prior_text
    /\ Len(row) = 3
    /\ lf.path = "yield"
    /\ lf.items = << << <<"a">>, << >> >> >>
    /\ strip(row[2]) = <<"a">>

\* What C3 says of one loop: with a header the first row with text is skipped
\* without column resolution, no other row is skipped as the header, and
\* without a header no row is.
C3_HeaderIsFirstTextRow(st) ==
    /\ (cfg.has_header /\ FirstWithText
          => st.path = "header" /\ st.err = "none" /\ st.q_idx = -1)
    /\ (st.path = "header" => cfg.has_header /\ FirstWithText)

C4_BlankRowsAreInert ==
    [][ Stepped =>
          /\ (NoText(row') =>
                /\ lf'.path = "blank" /\ pk'.path = "blank"
                /\ lf'.items = lf.items /\ pk'.items = pk.items
                /\ lf'.first = lf.first /\ pk'.first = pk.first
                /\ lf'.err = "none" /\ pk'.err = "none"
                /\ lf'.q_idx = -1 /\ pk'.q_idx = -1)
          /\ (cfg.has_header /\ ~NoText(row') /\ ~prior_text'
                => lf'.path = "header" /\ pk'.path = "header") ]_vars

C4_Witness ==
    /\ cfg.has_header
    /\ cfg.question_column = Index(MaxWidth)
    /\ nread = 2
    /\ row = << <<" ">>, << >> >>
    /\ ~prior_text
    /\ lf.path = "blank"
    /\ lf.first
    /\ status = "running"

\* What one loop did with a row whose columns were resolved.
C5_Resolved(st) ==
    st.path \in {"dropped", "yield"} =>
        LET q == strip(row[st.q_idx + 1])
            a == strip(row[st.a_idx + 1])
        IN  /\ (q = << >> /\ a = << >> => st.path = "dropped")
            /\ (q # << >> \/ a # << >>
                  => st.path = "yield" /\ Last(st.items) = <<q, a>>)

\* C5: no pair of the output, in either loop or in the dict returned, is
\* ("", ""): a row whose resolved question and answer cells are both empty
\* after trimming is dropped, and a row with at least one of them not empty is
\* kept as (question, answer).
C5_NeverBothEmpty ==
    /\ NoEmptyPair(lf.items) /\ NoEmptyPair(pk.items)
    /\ \A c \in DOMAIN result : NoEmptyPair(result[c])
    /\ \A c \in DOMAIN pkg_result : NoEmptyPair(pkg_result[c])
    /\ \A i \in 1..Len(returned) : \A c \in DOMAIN returned[i] : NoEmptyPair(returned[i][c])
    /\ C5_Resolved(lf) /\ C5_Resolved(pk)

C5_Witness ==
    /\ C1_Config
    /\ returned # << >>
    /\ nread = 2
    /\ row = << << >>, <<" ">>, <<" ", "a", " ">> >>
    /\ lf.path = "dropped"
    /\ \E c \in DOMAIN returned[1] : returned[1][c] = << << <<"a">>, << >> >> >>

\* C9: on every configuration and every sequence of rows the loop inlined in
\* load_from_package and the loop of _load_file agree: the same pairs in the
\* same order, the same branch on every row, the same exception at the same
\* row, and the same dict in the end.
C9_LoopsAgree ==
    /\ pk = lf
    /\ pkg_result = result

C9_Witness ==
    /\ nread = 2
    /\ pk.err = "IndexError"
    /\ lf.err = "IndexError"
    /\ Len(pk.items) = 1
    /\ cfg.has_header = FALSE

\* The indices one loop resolved for the row just read.
C10_For(st) ==
    st.path \in {"dropped", "yield"} =>
        /\ Len(row) >= 1
        /\ (st.q_idx = st.a_idx <=> Len(row) = 1)
        /\ (Len(row) = 1 => st.q_idx = 0 /\ st.a_idx = 0)

\* C10: when column resolution succeeds on a row of width W >= 1, the question
\* and answer indices are equal exactly when W = 1 (and are then both 0).
C10_DistinctUnlessOneCell == C10_For(lf) /\ C10_For(pk)

C10_Witness ==
    /\ cfg.question_column = Index(1)
    /\ cfg.answer_column = Index(1)
    /\ Len(row) = 3
    /\ lf.path = "yield"
    /\ lf.q_idx = 1
    /\ lf.a_idx = 0

\* File name a comes before file name b, code point by code point.
Precedes(a, b) ==
    \E k \in 1..Len(b) :
        /\ k <= Len(a) + 1
        /\ \A j \in 1..(k - 1) : a[j] = b[j]
        /\ (k <= Len(a) => Ord[a[k]] < Ord[b[k]])

\* The entries that are regular files named *.csv or *.tsv in any case.
CsvTsvFiles == { i \in 1..Len(entries) : entries[i].is_file /\ CsvOrTsv(entries[i].name) }

\* C6: once a data row (not blank, not the header) of any file is too narrow
\* for an explicit question or answer index, negative indices included, the
\* load operation has ended with the out-of-range error and has returned
\* nothing, whatever files and rows were parsed before.
C6_OutOfRangeAborts ==
    oob => status = "IndexError" /\ returned = << >>

C6_Witness ==
    /\ oob
    /\ op = "directory"
    /\ status = "IndexError"
    /\ idx = 1
    /\ DOMAIN result # {}
    /\ Len(lf.items) = 1
    /\ returned = << >>

\* C7: the dict load_from_directory returns has exactly the base names of the
\* directory's regular *.csv / *.tsv files (in any case) as its keys.
C7_DirectoryKeys ==
    op = "directory" /\ returned # << >> =>
        DOMAIN returned[1] = { BaseName(entries[i].name) : i \in CsvTsvFiles }

C7_Witness ==
    /\ op = "directory"
    /\ returned # << >>
    /\ Len(entries) = 2
    /\ \E i, j \in 1..2 :
         /\ entries[i].name = <<"a", ".", "T", "S", "V">>
         /\ ~entries[j].is_file
    /\ DOMAIN returned[1] = { <<"a">> }

\* C8: in the dict returned by load_from_directory or load_from_files, each
\* category holds exactly the pairs of the last file of that base name, last by
\* name for a directory and last in the list for a file list.
C8_LastFileWins ==
    op \in {"directory", "files"} /\ returned # << >> =>
        \A c \in DOMAIN returned[1] :
            LET cand == IF op = "files"
                        THEN { i \in 1..Len(entries) : BaseName(entries[i].name) = c }
                        ELSE { i \in CsvTsvFiles : BaseName(entries[i].name) = c }
                win == IF op = "files"
                       THEN CHOOSE i \in cand : \A j \in cand : j <= i
                       ELSE CHOOSE i \in cand :
                              \A j \in cand \ {i} : Precedes(entries[j].name, entries[i].name)
            IN  /\ c \in DOMAIN last_from
                /\ last_from[c].name = entries[win].name
                /\ (op = "files" => last_from[c].at = win)
                /\ returned[1][c] = last_from[c].items

C8_Witness ==
    /\ op = "directory"
    /\ returned # << >>
    /\ Len(entries) = 2
    /\ entries[1].name = <<"a", ".", "c", "s", "v">>
    /\ \E c \in DOMAIN last_from :
         /\ last_from[c].n = 2
         /\ last_from[c].name = entries[1].name
         /\ last_from[c].prev # << >>
         /\ returned[1][c] # << >>
         /\ returned[1][c] # last_from[c].prev

====
